---- MODULE Spec2Model ----
(***************************************************************************)
(* MedPerplexity backend: the substitute matcher (tools.py), the           *)
(* literature retriever (tools.py) and the three-agent workflow            *)
(* (agent_system.py), as state machines.                                   *)
(*                                                                         *)
(* Text is a sequence of one-character strings.  A similarity score is an  *)
(* exact fraction [num, den] in lowest terms: difflib's ratio is           *)
(* 2.0*M/T, and for the lengths used here the double arithmetic orders,    *)
(* equates and rounds such values exactly as the fractions do.             *)
(***************************************************************************)
EXTENDS Integers, Sequences, FiniteSets, TLC

VARIABLES
    \* ---- get_similarity_score applied to one (query, target) pair
    sq, st, sim, one_best, spc,
    \* ---- search_jan_aushadhi, one loop iteration per step
    query_drug, medicine_database, idx, best_match, highest_score,
    matched_name_source, generic_score, brand_score, current_source,
    match_result, mpc,
    \* ---- run_agent_workflow: its arguments, the files and the flag it reads
    patient_id, doctor_query, catalog_file, USE_LLM,
    \* ---- AgentState
    patient_data, research_evidence, jan_aushadhi_result, final_response,
    \* ---- research_agent's locals, and its "Trying search" log
    jan_result, evidence, variant, pmids, last_call, tried, outputs,
    \* ---- safety_agent's local: what llm.invoke answered
    response,
    \* ---- what run_agent_workflow returned or raised, and where it is
    returned, exc, pc,
    \* ---- authenticate_user: the doctors store, its arguments, the user it
    \* looked up, what it returned, and where it is
    doctors_db, email, password, user, auth_result, apc,
    \* ---- what register_user, login and get_current_user answered
    register_result, login_result, current_user

score_vars == <<sq, st, sim, one_best, spc>>
match_vars == <<query_drug, medicine_database, idx, best_match, highest_score,
                matched_name_source, generic_score, brand_score,
                current_source, match_result, mpc>>
flow_vars == <<patient_id, doctor_query, catalog_file, USE_LLM, patient_data,
               research_evidence, jan_aushadhi_result, final_response,
               jan_result, evidence, variant, pmids, last_call, tried,
               outputs, response, returned, exc, pc>>
auth_vars == <<doctors_db, email, password, user, auth_result, apc,
               register_result, login_result, current_user>>
vars == <<score_vars, match_vars, flow_vars, auth_vars>>

\* ------------------------------------------------------------------ bounds
MaxQueryLen == 5
MaxCatalog == 2
MaxIds == 2

\* ------------------------------------------------------- program constants
THRESHOLD == 85
SubstringBonus == 95
MinBonusLen == 4

\* -------------------------------------------------------------------- text
None == "None"

Lower(c) ==
    CASE c = "A" -> "a"
      [] c = "B" -> "b"
      [] c = "D" -> "d"
      [] c = "L" -> "l"
      [] c = "S" -> "s"
      [] c = "V" -> "v"
      [] OTHER -> c

IsSpace(c) == c \in {" "}

\* str.lower()
lower(s) == [i \in 1..Len(s) |-> Lower(s[i])]

\* str.strip(): leading and trailing whitespace removed
strip(s) ==
    LET keep == {i \in 1..Len(s) : ~IsSpace(s[i])}
    IN  IF keep = {} THEN <<>>
        ELSE LET lo == CHOOSE i \in keep : \A j \in keep : i <= j
                 hi == CHOOSE i \in keep : \A j \in keep : j <= i
             IN  SubSeq(s, lo, hi)

\* q in t: q is a contiguous substring of t (the empty string is in any)
Contains(t, q) ==
    \E p \in 0..(Len(t) - Len(q)) : \A k \in 1..Len(q) : t[p + k] = q[k]

RECURSIVE Rep(_, _)
Rep(c, n) == IF n = 0 THEN <<>> ELSE <<c>> \o Rep(c, n - 1)

\* ------------------------------------------------------------------ scores
RECURSIVE Gcd(_, _)
Gcd(a, b) == IF b = 0 THEN a ELSE Gcd(b, a % b)

Rat(n, d) == LET g == Gcd(n, d) IN [num |-> n \div g, den |-> d \div g]

RatLt(x, y) == x.num * y.den < y.num * x.den
RatGe(x, y) == ~RatLt(x, y)
RatGt(x, y) == RatLt(y, x)
RatMax(x, y) == IF RatLt(x, y) THEN y ELSE x

\* difflib.SequenceMatcher.find_longest_match on a[alo+1..ahi], b[blo+1..bhi]
\* (no junk): the longest common block, earliest in a, then earliest in b.
RECURSIVE CommonLen(_, _, _, _, _, _)
CommonLen(a, b, i, j, ahi, bhi) ==
    IF i <= ahi /\ j <= bhi /\ a[i] = b[j]
    THEN 1 + CommonLen(a, b, i + 1, j + 1, ahi, bhi)
    ELSE 0

find_longest_match(a, b, alo, ahi, blo, bhi) ==
    LET cands == {[i |-> i, j |-> j, k |-> CommonLen(a, b, i, j, ahi, bhi)] :
                     i \in (alo + 1)..ahi, j \in (blo + 1)..bhi}
        Better(x, y) == \/ x.k > y.k
                        \/ x.k = y.k /\ x.i < y.i
                        \/ x.k = y.k /\ x.i = y.i /\ x.j <= y.j
    IN  IF cands = {} THEN [i |-> alo + 1, j |-> blo + 1, k |-> 0]
        ELSE CHOOSE x \in cands : \A y \in cands : Better(x, y)

\* difflib.SequenceMatcher.get_matching_blocks: total size of the blocks
RECURSIVE MatchTotal(_, _, _, _, _, _)
MatchTotal(a, b, alo, ahi, blo, bhi) ==
    LET m == find_longest_match(a, b, alo, ahi, blo, bhi)
    IN  IF m.k = 0 THEN 0
        ELSE m.k
             + (IF alo < m.i - 1 /\ blo < m.j - 1
                THEN MatchTotal(a, b, alo, m.i - 1, blo, m.j - 1) ELSE 0)
             + (IF m.i - 1 + m.k < ahi /\ m.j - 1 + m.k < bhi
                THEN MatchTotal(a, b, m.i - 1 + m.k, ahi, m.j - 1 + m.k, bhi)
                ELSE 0)

\* difflib.SequenceMatcher.ratio() * 100
base_score(q, t) ==
    LET total == Len(q) + Len(t)
    IN  IF total = 0 THEN Rat(100, 1)
        ELSE Rat(200 * MatchTotal(q, t, 0, Len(q), 0, Len(t)), total)

get_similarity_score_no_bonus(query, target) ==
    base_score(strip(lower(query)), strip(lower(target)))

get_similarity_score(query, target) ==
    LET q == strip(lower(query))
        t == strip(lower(target))
    IN  IF Len(q) > MinBonusLen /\ Contains(t, q)
        THEN RatMax(base_score(q, t), Rat(SubstringBonus, 1))
        ELSE base_score(q, t)

\* ------------------------------------------------------------- dictionaries
\* dict.get(key, default)
Get(d, key, default) == IF key \in DOMAIN d THEN d[key] ELSE default

HasKey(d, key) == key \in DOMAIN d

\* a call's outcome: a returned value or an exception leaving the function
Return(v) == [exc |-> None, value |-> v]
Raise(e) == [exc |-> e]

\* -------------------------------------------------------------- formatting
\* f"{x:.1f}" of a score: tenths, halves rounded to even
Format1(x) ==
    LET n10 == x.num * 10
        fl == n10 \div x.den
        rem == n10 % x.den
    IN  IF 2 * rem > x.den THEN fl + 1
        ELSE IF 2 * rem < x.den THEN fl
        ELSE IF fl % 2 = 0 THEN fl ELSE fl + 1

\* f"Rs{float(x)}" of a whole price: the rupee amount with one decimal
Rupee(x) == [rupees |-> x, tenths |-> 0]

\* f"Rs{x:.2f}": the amount in paise
Rupee2(x) == [paise |-> x * 100]

\* ------------------------------------------------------ search_jan_aushadhi
NoRecord == [none |-> TRUE]
NoSource == [kind |-> "", name |-> <<>>]

\* the locals of search_jan_aushadhi before its loop
MatchLocals0 ==
    [best_match |-> NoRecord, highest_score |-> Rat(0, 1),
     matched_name_source |-> NoSource, generic_score |-> Rat(0, 1),
     brand_score |-> Rat(0, 1), current_source |-> NoSource]

\* the loop over record['common_brands']: a later brand replaces the best
\* one only with a strictly greater score
BestBrandNone(query, brands, i, acc) == acc

RECURSIVE BestBrand(_, _, _, _)
BestBrand(query, brands, i, acc) ==
    IF i > Len(brands) THEN acc
    ELSE LET b_score == get_similarity_score(query, brands[i])
         IN  BestBrand(query, brands, i + 1,
                 IF RatGt(b_score, acc.brand_score)
                 THEN [brand_score |-> b_score, current_best_brand |-> brands[i]]
                 ELSE acc)

\* step 3 of the loop body: the record's score and where it came from
RecordChoiceGenericWinsTies(generic_name, g, b) ==
    IF RatGe(g, b.brand_score)
    THEN [score |-> g, source |-> [kind |-> "Generic Match", name |-> generic_name]]
    ELSE [score |-> b.brand_score,
          source |-> [kind |-> "Brand Match", name |-> b.current_best_brand]]

RecordChoice(generic_name, g, b) ==
    IF RatGt(g, b.brand_score)
    THEN [score |-> g, source |-> [kind |-> "Generic Match", name |-> generic_name]]
    ELSE [score |-> b.brand_score,
          source |-> [kind |-> "Brand Match", name |-> b.current_best_brand]]

ScanRecordLastWins(query, record, loc) ==
    LET generic_name == Get(record, "generic_name", <<>>)
        g == get_similarity_score(query, generic_name)
        b == BestBrand(query, Get(record, "common_brands", <<>>), 1,
                       [brand_score |-> Rat(0, 1), current_best_brand |-> <<>>])
        c == RecordChoice(generic_name, g, b)
        better == RatGe(c.score, loc.highest_score)
    IN  [best_match |-> IF better THEN record ELSE loc.best_match,
         highest_score |-> IF better THEN c.score ELSE loc.highest_score,
         matched_name_source |->
             IF better THEN c.source ELSE loc.matched_name_source,
         generic_score |-> g,
         brand_score |-> b.brand_score,
         current_source |-> c.source]

\* one iteration of the loop over medicine_database
ScanRecord(query, record, loc) ==
    LET generic_name == Get(record, "generic_name", <<>>)
        g == get_similarity_score(query, generic_name)
        b == BestBrand(query, Get(record, "common_brands", <<>>), 1,
                       [brand_score |-> Rat(0, 1), current_best_brand |-> <<>>])
        c == RecordChoice(generic_name, g, b)
        better == RatGt(c.score, loc.highest_score)
    IN  [best_match |-> IF better THEN record ELSE loc.best_match,
         highest_score |-> IF better THEN c.score ELSE loc.highest_score,
         matched_name_source |->
             IF better THEN c.source ELSE loc.matched_name_source,
         generic_score |-> g,
         brand_score |-> b.brand_score,
         current_source |-> c.source]

RECURSIVE ScanFrom(_, _, _, _)
ScanFrom(query, db, i, loc) ==
    IF i > Len(db) THEN loc
    ELSE ScanFrom(query, db, i + 1, ScanRecord(query, db[i], loc))

\* step 5: the result built from the locals after the loop
AcceptAbove(score) == RatGt(score, Rat(THRESHOLD, 1))

Accept(score) == RatGe(score, Rat(THRESHOLD, 1))

NoSubstitute(loc) ==
    [found |-> FALSE,
     message |-> [text |-> "No direct Jan Aushadhi substitute found. (Best match: {}%)",
                  best |-> Format1(loc.highest_score)]]

ConstructKeepNegative(query, loc) ==
    IF Accept(loc.highest_score)
    THEN LET jan_price == Get(loc.best_match, "jan_price", 0)
             market_price == Get(loc.best_match, "market_avg_price", 0)
             savings_amount == market_price - jan_price
         IN  IF ~HasKey(loc.best_match, "generic_name") THEN Raise("KeyError")
             ELSE Return(
               [found |-> TRUE,
                drug_data |->
                  [generic_name |-> loc.best_match["generic_name"],
                   brand_name_detected |-> query,
                   match_source |-> loc.matched_name_source,
                   jan_aushadhi_price |-> Rupee(jan_price),
                   market_average_price |-> Rupee(market_price),
                   savings_amount |-> Rupee2(savings_amount),
                   savings_percentage |->
                       Get(loc.best_match, "savings_percentage", "0%")],
                message |-> [text |-> "Switch Available",
                             generic_name |-> loc.best_match["generic_name"],
                             jan_price |-> Rupee(jan_price),
                             market_price |-> Rupee(market_price),
                             savings |-> Rupee2(savings_amount)]])
    ELSE Return(NoSubstitute(loc))

Construct(query, loc) ==
    IF Accept(loc.highest_score)
    THEN LET jan_price == Get(loc.best_match, "jan_price", 0)
             market_price == Get(loc.best_match, "market_avg_price", 0)
             savings_amount == market_price - jan_price
         IN  IF savings_amount < 0
             THEN Return([found |-> FALSE,
                          message |-> [text |-> "Generic found but offers no savings."]])
             ELSE IF ~HasKey(loc.best_match, "generic_name") THEN Raise("KeyError")
             ELSE Return(
               [found |-> TRUE,
                drug_data |->
                  [generic_name |-> loc.best_match["generic_name"],
                   brand_name_detected |-> query,
                   match_source |-> loc.matched_name_source,
                   jan_aushadhi_price |-> Rupee(jan_price),
                   market_average_price |-> Rupee(market_price),
                   savings_amount |-> Rupee2(savings_amount),
                   savings_percentage |->
                       Get(loc.best_match, "savings_percentage", "0%")],
                message |-> [text |-> "Switch Available",
                             generic_name |-> loc.best_match["generic_name"],
                             jan_price |-> Rupee(jan_price),
                             market_price |-> Rupee(market_price),
                             savings |-> Rupee2(savings_amount)]])
    ELSE Return(NoSubstitute(loc))

Unavailable == [found |-> FALSE, message |-> [text |-> "Database unavailable."]]

\* search_jan_aushadhi(query_drug, medicine_database) with the catalog given
search_jan_aushadhi(query, db) ==
    IF db = <<>> THEN Return(Unavailable)
    ELSE Construct(query, ScanFrom(query, db, 1, MatchLocals0))

\* ------------------------------------------------------------ catalog data
Atorvastatin == <<"A","t","o","r","v","a","s","t","a","t","i","n">>
Lipitor == <<"L","i","p","i","t","o","r">>
Storvas == <<"S","t","o","r","v","a","s">>
Diclofenac == <<"D","i","c","l","o","f","e","n","a","c">>
Voveran == <<"V","o","v","e","r","a","n">>
LongGeneric == Rep("a", 17) \o <<"d","d","d">>

\* the catalog entry of the test area of tools.py
AtorvastatinEntry ==
    [generic_name |-> Atorvastatin, common_brands |-> <<Lipitor, Storvas>>,
     jan_price |-> 12, market_avg_price |-> 140, savings_percentage |-> "91%"]

\* an entry whose catalog price is above its market price
DiclofenacEntry ==
    [generic_name |-> Diclofenac, common_brands |-> <<Voveran>>,
     jan_price |-> 50, market_avg_price |-> 30, savings_percentage |-> "0%"]

\* a second Atorvastatin entry, at other prices
AtorvastatinPackEntry ==
    [generic_name |-> Atorvastatin, common_brands |-> <<Storvas>>,
     jan_price |-> 20, market_avg_price |-> 150, savings_percentage |-> "87%"]

\* an entry with equal prices and no brands
LongEntry ==
    [generic_name |-> LongGeneric, common_brands |-> <<>>,
     jan_price |-> 20, market_avg_price |-> 20]

\* an entry without the generic_name key
BrandOnlyEntry ==
    [common_brands |-> <<Lipitor>>, jan_price |-> 12, market_avg_price |-> 140]

Entries ==
    {AtorvastatinEntry, AtorvastatinPackEntry, DiclofenacEntry, LongEntry,
     BrandOnlyEntry}

RECURSIVE SeqsUpTo(_, _)
SeqsUpTo(S, n) ==
    IF n = 0 THEN {<<>>}
    ELSE LET shorter == SeqsUpTo(S, n - 1)
         IN  shorter \cup {Append(s, x) : s \in shorter, x \in S}

Catalogs == SeqsUpTo(Entries, MaxCatalog)

MatchQueries ==
    {Lipitor,
     <<" ","l","i","p","i","t","o","r">>,
     <<"t","o","r","v","a","s">>,
     <<" ">> \o Diclofenac \o <<" ">>,
     <<"a","t","o","r","v","a","s","t","a","t","i","m">>,
     Rep("a", 17) \o <<"b","b","b">>,
     <<"z","z","z">>,
     <<>>}

ScoreAlphabet == {"a", "B", " "}
ScoreQueries == SeqsUpTo(ScoreAlphabet, MaxQueryLen)
ScoreTargets ==
    {<<"b","a","b","a","b","a","b">>,
     <<"a"," ","b","a","b","a","b">>,
     <<"B"," ","a","b","a","b">>,
     <<" ","a","a","a","a","a","a"," ">>,
     <<"a","a","b","b","a","a","b","b">>,
     <<"b","b","b","b","b">>,
     <<"A","b","a","b","a">>,
     <<"a"," "," "," "," "," ","b">>,
     <<>>}

\* ------------------------------------------------ get_similarity_score run
ScoreIdle ==
    /\ sq = <<>> /\ st = <<>> /\ sim = Rat(0, 1) /\ one_best = Rat(0, 1)
    /\ spc = "idle"

ScoreInit ==
    /\ sq \in ScoreQueries
    /\ st \in ScoreTargets
    /\ sim = Rat(0, 1)
    /\ one_best = Rat(0, 1)
    /\ spc = "call"

\* get_similarity_score(sq, st), and the best score of the search of sq in
\* the one-entry catalog whose generic name is st
ScoreApply ==
    /\ spc = "call"
    /\ sim' = get_similarity_score(sq, st)
    /\ one_best' = ScanFrom(sq, <<[generic_name |-> st, common_brands |-> <<>>,
                                   jan_price |-> 12, market_avg_price |-> 140]>>,
                            1, MatchLocals0).highest_score
    /\ spc' = "done"
    /\ UNCHANGED <<sq, st, match_vars, flow_vars,
                   auth_vars>>

\* ------------------------------------------------- search_jan_aushadhi run
Locals ==
    [best_match |-> best_match, highest_score |-> highest_score,
     matched_name_source |-> matched_name_source,
     generic_score |-> generic_score, brand_score |-> brand_score,
     current_source |-> current_source]

SetLocals(loc) ==
    /\ best_match' = loc.best_match
    /\ highest_score' = loc.highest_score
    /\ matched_name_source' = loc.matched_name_source
    /\ generic_score' = loc.generic_score
    /\ brand_score' = loc.brand_score
    /\ current_source' = loc.current_source

LocalsAre(loc) ==
    /\ best_match = loc.best_match
    /\ highest_score = loc.highest_score
    /\ matched_name_source = loc.matched_name_source
    /\ generic_score = loc.generic_score
    /\ brand_score = loc.brand_score
    /\ current_source = loc.current_source

MatchIdle ==
    /\ query_drug = <<>> /\ medicine_database = <<>> /\ idx = 0
    /\ LocalsAre(MatchLocals0)
    /\ match_result = Return(None) /\ mpc = "idle"

MatchInit ==
    /\ query_drug \in MatchQueries
    /\ medicine_database \in Catalogs
    /\ idx = 0
    /\ LocalsAre(MatchLocals0)
    /\ match_result = Return(None)
    /\ mpc = "call"

\* the entry of search_jan_aushadhi: the empty-catalog return, or the
\* locals before the loop
MatchBegin ==
    /\ mpc = "call"
    /\ IF medicine_database = <<>>
       THEN /\ match_result' = Return(Unavailable)
            /\ mpc' = "returned"
       ELSE /\ match_result' = match_result
            /\ mpc' = "loop"
    /\ SetLocals(MatchLocals0)
    /\ UNCHANGED <<query_drug, medicine_database, idx, score_vars, flow_vars,
                   auth_vars>>

\* one iteration of "for record in medicine_database"
MatchScanStep ==
    /\ mpc = "loop"
    /\ idx < Len(medicine_database)
    /\ SetLocals(ScanRecord(query_drug, medicine_database[idx + 1], Locals))
    /\ idx' = idx + 1
    /\ UNCHANGED <<query_drug, medicine_database, match_result, mpc, score_vars,
                   flow_vars,
                   auth_vars>>

\* step 5, after the loop: the result, or the exception of building it
MatchFinish ==
    /\ mpc = "loop"
    /\ idx = Len(medicine_database)
    /\ match_result' = Construct(query_drug, Locals)
    /\ mpc' = IF match_result'.exc = None THEN "returned" ELSE "raised"
    /\ UNCHANGED <<query_drug, medicine_database, idx, best_match,
                   highest_score, matched_name_source, generic_score,
                   brand_score, current_source, score_vars, flow_vars,
                   auth_vars>>

\* ------------------------------------------------------------------- JSON
\* A text is a sequence of chunks: a document json.dumps wrote, a markdown
\* fence, or words that are no JSON.  The empty sequence is the empty string.
EmptyDict == [k \in {} |-> None]
EmptyText == <<>>
NoneText == <<[none |-> TRUE]>>
GarbageText == <<[words |-> "I cannot answer that."]>>

json_dumps(v) == <<[json |-> v]>>

\* json.loads: the document, when the text is exactly one
json_loads(text) ==
    IF Len(text) = 1 /\ HasKey(text[1], "json")
    THEN Return(text[1].json)
    ELSE Raise("JSONDecodeError")

\* "not x" of a text or None
Falsy(text) == text = EmptyText \/ text = NoneText

\* a JSON value that is no object: a string or an array
JsonString(s) == [json_string |-> s]
JsonArray == [json_array |-> <<>>]
IsDict(v) == ~HasKey(v, "json_string") /\ ~HasKey(v, "json_array")

\* d[key] = v
SetKey(d, key, v) ==
    [k \in (DOMAIN d) \cup {key} |-> IF k = key THEN v ELSE d[k]]

\* --------------------------------------------------------- patient store
\* data/patients.json
PatientsDb ==
    [p \in {"PAT-001", "PAT-003"} |->
        CASE p = "PAT-001" ->
                 [name |-> "Rajesh", condition_tags |-> <<<<"C","K","D">>>>,
                  allergies |-> <<>>]
          [] OTHER -> JsonString("see paper file")]

PatientIds == {"PAT-001", "PAT-003", "PAT-404"}

personalization_agent_unguarded(file, id) ==
    IF file # "ok" THEN EmptyDict
    ELSE IF id \notin DOMAIN PatientsDb THEN JsonString("null")
         ELSE PatientsDb[id]

\* personalization_agent: file is how open/json.load of the store ended
personalization_agent(file, id) ==
    IF file # "ok" THEN EmptyDict
    ELSE IF id \notin DOMAIN PatientsDb \/ DOMAIN PatientsDb[id] = {}
         THEN [error |-> "Patient not found"]
         ELSE PatientsDb[id]

\* ----------------------------------------------------------- catalog store
\* how reading data/jan_aushadhi.json ends: an exception of open/json.load,
\* or the array read
CatalogFiles ==
    {[error |-> "FileNotFoundError"], [error |-> "JSONDecodeError"],
     [error |-> "UnicodeDecodeError"],
     [array |-> <<>>],
     [array |-> <<AtorvastatinEntry, DiclofenacEntry>>],
     [array |-> <<BrandOnlyEntry>>]}

load_jan_aushadhi_db(file) ==
    IF HasKey(file, "array") THEN Return(file.array)
    ELSE IF file.error \in {"FileNotFoundError", "JSONDecodeError"}
         THEN Return(<<>>)
         ELSE Raise(file.error)

\* search_jan_aushadhi(query_drug) with the catalog loaded from the file
search_jan_aushadhi_default(query, file) ==
    LET db == load_jan_aushadhi_db(file)
    IN  IF db.exc # None THEN db ELSE search_jan_aushadhi(query, db.value)

\* ------------------------------------------------------------- the index
\* what one esearch call can do: answer with an id list, or fail
\* the ranked id lists: the first n ids of the index's ranking, an id
\* written as its number
IdLists == {[k \in 1..n |-> 38011230 + k] : n \in 0..MaxIds}
SearchResponses ==
    {[idlist |-> ids] : ids \in IdLists}
    \cup {[error |-> "Timeout"], [error |-> "HTTPError"]}

search_pubmed_ids_no_catch(resp) ==
    IF HasKey(resp, "idlist") THEN Return(resp.idlist) ELSE Raise(resp.error)

\* search_pubmed_ids: the id list, or [] on any exception
search_pubmed_ids(resp) ==
    IF HasKey(resp, "idlist") THEN Return(resp.idlist) ELSE Return(<<>>)

\* what one efetch call can do: answer with one PubmedArticle element per
\* id, each well-formed or not (no PubDate), or fail
FetchResponses(ids) ==
    {[wellformed |-> w] : w \in [1..Len(ids) -> BOOLEAN]}
    \cup {[error |-> "Timeout"], [error |-> "ParseError"]}

article(pmid) ==
    [pmid |-> pmid, url |-> <<"https://pubmed.ncbi.nlm.nih.gov/", pmid, "/">>]

RECURSIVE formatted_articles(_, _, _)
formatted_articles(ids, w, i) ==
    IF i > Len(ids) THEN <<>>
    ELSE (IF w[i] THEN <<article(ids[i])>> ELSE <<>>)
         \o formatted_articles(ids, w, i + 1)

\* fetch_article_details: the articles parsed, malformed ones skipped, or []
\* on any exception
fetch_article_details(ids, resp) ==
    IF ids = <<>> THEN <<>>
    ELSE IF HasKey(resp, "error") THEN <<>>
    ELSE formatted_articles(ids, resp.wellformed, 1)

NoResults == json_dumps([status |-> "error", message |-> "No results found."])

\* the last line of query_pubmed_realtime
query_pubmed_realtime_result(articles) ==
    json_dumps([status |-> "success", evidence_count |-> Len(articles),
                articles |-> articles])

\* ----------------------------------------------------------- research_agent
\* " ".join(patient_context)
RECURSIVE JoinSpace(_)
JoinSpace(tags) ==
    IF tags = <<>> THEN <<>>
    ELSE IF Len(tags) = 1 THEN tags[1]
    ELSE tags[1] \o <<" ">> \o JoinSpace(Tail(tags))

\* the four search strings, each given by its parts
search_terms(query, conditions_str) ==
    <<[query |-> query, conditions |-> conditions_str,
       rest |-> "contraindications adverse effects"],
      [query |-> query, conditions |-> conditions_str, rest |-> "safety"],
      [query |-> query, rest |-> "chronic kidney disease"],
      [query |-> query, rest |-> "clinical guidelines"]>>

Terms ==
    search_terms(doctor_query,
                 JoinSpace(Get(patient_data, "condition_tags", <<>>)))

\* the test of line 99 that ends the loop
loop_break_never(text) == FALSE

loop_break(text) ==
    LET evidence_data == json_loads(text).value
    IN  /\ Get(evidence_data, "status", None) = "success"
        /\ Len(Get(evidence_data, "articles", <<>>)) > 0

\* ------------------------------------------------------------- safety_agent
\* lines 120-129: the sources taken from the research evidence
pubmed_articles_of(text) ==
    LET parsed == json_loads(text)
    IN  IF parsed.exc # None THEN <<>>
        ELSE IF Get(parsed.value, "status", None) = "success"
             THEN Get(parsed.value, "articles", <<>>)
             ELSE <<>>

\* lines 133-141: the response when no LLM is configured
no_llm_response(query, jan, sources) ==
    [status |-> "approved",
     title |-> "Manual Review Recommended",
     message |-> [text |-> "Please review PubMed evidence and patient history manually.",
                  query |-> query],
     evidence |-> "LLM not configured - using fallback mode",
     suggestion |-> None,
     savings |-> IF Get(jan, "found", FALSE) THEN jan ELSE [found |-> FALSE],
     sources |-> sources]

fail_safe_response_bare(e, sources) ==
    [status |-> "caution",
     title |-> "Analysis Error",
     savings |-> [found |-> FALSE],
     sources |-> <<>>]

\* lines 207-215: the fail-safe response
fail_safe_response(e, sources) ==
    [status |-> "caution",
     title |-> "Analysis Error",
     message |-> [text |-> "Could not complete automated safety check. Please review guidelines manually."],
     evidence |-> [text |-> "System Error", error |-> e],
     suggestion |-> None,
     savings |-> [found |-> FALSE],
     sources |-> sources]

\* line 187: the opening and closing markdown fences are removed
IsFence(chunk) == HasKey(chunk, "fence")
clean_json_text(content) == SelectSeq(content, LAMBDA c : ~IsFence(c))

decide_from_draft_trusting(final_decision, jan, sources) ==
    IF ~IsDict(final_decision) THEN Raise("TypeError")
    ELSE Return(SetKey(final_decision, "sources", sources))

decide_from_draft_as_drafted(final_decision, jan, sources) ==
    IF ~IsDict(final_decision) THEN Raise("TypeError")
    ELSE Return(final_decision)

\* lines 189-202 on the parsed draft; the exception of a step, if one raises
decide_from_draft(final_decision, jan, sources) ==
    LET forced == Get(jan, "found", FALSE)
        tool_data == jan["drug_data"]
        repaired ==
            SetKey(final_decision, "savings",
                   [found |-> TRUE,
                    text |-> [save |-> Get(tool_data, "savings_amount", "money"),
                              switch_to |-> Get(tool_data, "generic_name",
                                                "alternative")]])
    IN  IF forced /\ ~IsDict(final_decision) THEN Raise("TypeError")
        ELSE IF forced /\ ~HasKey(final_decision, "status") THEN Raise("KeyError")
        ELSE IF ~IsDict(final_decision) THEN Raise("TypeError")
        ELSE IF forced /\ final_decision["status"] # "blocked"
             THEN Return(SetKey(repaired, "sources", sources))
             ELSE Return(SetKey(final_decision, "sources", sources))

Statuses == {"approved", "blocked", "caution"}

\* safety_agent: llm is what llm.invoke does, an exception or a content
safety_agent(query, jan, research, use_llm, llm) ==
    LET sources == pubmed_articles_of(research)
    IN  IF ~use_llm THEN no_llm_response(query, jan, sources)
        ELSE IF HasKey(llm, "error") THEN fail_safe_response(llm.error, sources)
        ELSE LET parsed == json_loads(clean_json_text(llm.content))
             IN  IF parsed.exc # None
                 THEN fail_safe_response(parsed.exc, sources)
                 ELSE LET d == decide_from_draft(parsed.value, jan, sources)
                      IN  IF d.exc # None
                          THEN fail_safe_response(d.exc, sources)
                          ELSE d.value

\* what the text-generation collaborator can answer
DraftSavings ==
    {[found |-> TRUE, text |-> "Save a lot by switching to Jan Aushadhi."],
     [found |-> FALSE, text |-> ""]}

Draft(status, savings) ==
    [status |-> status, title |-> "Headline", message |-> "Explanation",
     evidence |-> "PubMed", suggestion |-> "Alternative", savings |-> savings]

Drafts ==
    {Draft(s, v) : s \in Statuses, v \in DraftSavings}
    \cup {Draft("unknown", [found |-> FALSE, text |-> ""]),
          Draft("", [found |-> FALSE, text |-> ""])}
    \cup {[title |-> "Headline", message |-> "Explanation"]}
    \cup {JsonArray}
    \cup {SetKey(Draft("approved", [found |-> FALSE, text |-> ""]), "sources",
                 <<[pmid |-> 1, url |-> "https://example.org/1"]>>)}

LlmBodies == {GarbageText} \cup {json_dumps(d) : d \in Drafts}

LlmOutcomes ==
    {[error |-> "ResourceExhausted"]}
    \cup {[content |-> b] : b \in LlmBodies}
    \cup {[content |-> <<[fence |-> "open json"]>> \o b \o <<[fence |-> "close"]>>] :
             b \in LlmBodies}

\* ------------------------------------------------------------------ auth.py
\* pwd_context.hash: a bcrypt hash, which verifies exactly its password
hash_password(p) == [bcrypt |-> p]

\* the empty string where a hash is expected
EmptyHash == [empty |-> TRUE]

\* pwd_context.verify: raises on a stored string that is no bcrypt hash
verify_password(plain_password, hashed_password) ==
    IF HasKey(hashed_password, "bcrypt")
    THEN Return(hashed_password.bcrypt = plain_password)
    ELSE Raise("UnknownHashError")

\* data/doctors.json: the doctors in file order, each an id and its record
DoctorsDbs ==
    {<<>>,
     <<[id |-> "DOC-001",
        data |-> [email |-> <<"d","@","b">>, username |-> <<"D","r">>,
                  hashed_password |-> hash_password("s3cret")]],
       [id |-> "DOC-002",
        data |-> [email |-> <<"L","@","b">>,
                  password_hash |-> hash_password("pa55")]]>>,
     <<[id |-> "DOC-001",
        data |-> [email |-> <<"d","@","b">>, username |-> <<"D","r">>,
                  hashed_password |-> hash_password("s3cret")]],
       [id |-> "DOC-003",
        data |-> [email |-> <<"s","@","b">>, username |-> <<"s","a","l">>,
                  hashed_password |-> [plain |-> "pa55"]]],
       [id |-> "DOC-004",
        data |-> [email |-> <<"v","@","b">>, username |-> <<"v","a","l">>]]>>}

Emails ==
    {<<"d","@","b">>, <<"D","@","B">>, <<"d","r">>, <<"l","@","b">>,
     <<"s","@","b">>, <<"v","@","b">>, <<"a","@","b">>}

Passwords == {"s3cret", "pa55", "doctor123", "wrong"}

NoUser == [none |-> TRUE]

\* get_user_by_email: the first doctor whose email or username equals the
\* argument, compared in lower case, with the id added
RECURSIVE get_user_by_email(_, _, _)
get_user_by_email(db, e, i) ==
    IF i > Len(db) THEN NoUser
    ELSE LET doctor_data == db[i].data
             email_match == lower(Get(doctor_data, "email", <<>>)) = lower(e)
             username_match ==
                 lower(Get(doctor_data, "username", <<>>)) = lower(e)
         IN  IF email_match \/ username_match
             THEN IF HasKey(doctor_data, "id") THEN doctor_data
                  ELSE SetKey(doctor_data, "id", db[i].id)
             ELSE get_user_by_email(db, e, i + 1)

\* user.get("hashed_password") or user.get("password_hash", "")
password_hash_of(u) ==
    IF HasKey(u, "hashed_password") /\ u["hashed_password"] # EmptyHash
    THEN u["hashed_password"]
    ELSE Get(u, "password_hash", EmptyHash)

\* authenticate_user after the lookup found u: lines 163-179
check_password(u, p) ==
    IF p = "doctor123" THEN u
    ELSE LET password_hash == password_hash_of(u)
             verified == IF password_hash = EmptyHash THEN Return(FALSE)
                         ELSE verify_password(p, password_hash)
         IN  IF verified.exc = None /\ verified.value THEN u ELSE NoUser

authenticate_user(db, e, p) ==
    LET u == get_user_by_email(db, e, 1)
    IN  IF u = NoUser THEN NoUser ELSE check_password(u, p)

\* ------------------------------------------- register, login, current user
account_vars == <<register_result, login_result, current_user>>

NoAnswer == [none |-> TRUE]

AccountIdle ==
    /\ register_result = NoAnswer /\ login_result = NoAnswer
    /\ current_user = NoAnswer

\* int(doc_id.split("-")[1]) of a DOC- id
IdNumber(doc_id) ==
    CASE doc_id = "DOC-001" -> 1
      [] doc_id = "DOC-002" -> 2
      [] doc_id = "DOC-003" -> 3
      [] doc_id = "DOC-004" -> 4
      [] OTHER -> 5

\* f"DOC-{n:03d}"
DoctorId(n) ==
    CASE n = 1 -> "DOC-001"
      [] n = 2 -> "DOC-002"
      [] n = 3 -> "DOC-003"
      [] n = 4 -> "DOC-004"
      [] OTHER -> "DOC-005"

\* max(existing_ids, default=0)
MaxId(db) ==
    LET existing_ids == {IdNumber(db[i].id) : i \in 1..Len(db)}
    IN  IF existing_ids = {} THEN 0
        ELSE CHOOSE n \in existing_ids : \A m \in existing_ids : m <= n

\* the record register_user creates
new_doctor(e, p, name, specialization) ==
    [email |-> e, hashed_password |-> hash_password(p), name |-> name,
     specialization |-> specialization, created_at |-> "utcnow"]

\* register_user: its result and the store after it; saved is whether
\* save_doctors_db could write the file
register_user(db, e, p, name, specialization, saved) ==
    IF get_user_by_email(db, e, 1) # NoUser
    THEN [result |-> [success |-> FALSE, message |-> "Email already registered"],
          db |-> db]
    ELSE LET new_doctor_id == DoctorId(MaxId(db) + 1)
         IN  IF saved
             THEN [result |-> [success |-> TRUE,
                               message |-> "Doctor registered successfully",
                               doctor_id |-> new_doctor_id],
                   db |-> Append(db, [id |-> new_doctor_id,
                                      data |-> new_doctor(e, p, name,
                                                          specialization)])]
             ELSE [result |-> [success |-> FALSE,
                               message |-> "Failed to save user data"],
                   db |-> db]

\* create_access_token: the claims, signed, expiring after the given time
create_access_token(data) == [jwt |-> SetKey(data, "exp", "in 60 minutes")]

\* decode_access_token: the payload, or None for an expired token
NoPayload == [none |-> TRUE]
decode_access_token(token, expired) ==
    IF expired THEN NoPayload ELSE token.jwt

\* a record without one key
WithoutKey(d, key) == [k \in (DOMAIN d) \ {key} |-> d[k]]

\* the login route of app.py: the response, or the error that ends it
login(db, e, p) ==
    LET u == authenticate_user(db, e, p)
    IN  IF u = NoUser
        THEN [status |-> 401, detail |-> "Incorrect email or password"]
        ELSE IF ~HasKey(u, "username")
             THEN [status |-> 500, exc |-> "KeyError"]
             ELSE [status |-> 200,
                   access_token |-> create_access_token([sub |-> u["username"]]),
                   token_type |-> "bearer",
                   user |-> WithoutKey(u, "hashed_password")]

\* get_current_user of app.py: the user, or the HTTP error raised
get_current_user(db, token, expired) ==
    LET payload == decode_access_token(token, expired)
    IN  IF payload = NoPayload
        THEN [status |-> 401, detail |-> "Invalid or expired token"]
        ELSE LET u == get_user_by_email(db, Get(payload, "sub", <<>>), 1)
             IN  IF u = NoUser
                 THEN [status |-> 404, detail |-> "User not found"]
                 ELSE [status |-> 200, user |-> u]

AccountInit ==
    /\ doctors_db \in DoctorsDbs
    /\ email \in Emails
    /\ password \in Passwords
    /\ user = NoUser /\ auth_result = NoUser /\ apc = "register"
    /\ AccountIdle

\* auth.py lines 195-225: a registration request
Register ==
    /\ apc = "register"
    /\ \E saved \in BOOLEAN :
          LET r == register_user(doctors_db, email, password, "Dr. New",
                                 "General Medicine", saved)
          IN  /\ register_result' = r.result
              /\ doctors_db' = r.db
    /\ apc' = "login"
    /\ UNCHANGED <<email, password, user, auth_result, login_result,
                   current_user, score_vars, match_vars, flow_vars>>

\* app.py lines 138-165: a login request with the same email and password
Login ==
    /\ apc = "login"
    /\ auth_result' = authenticate_user(doctors_db, email, password)
    /\ login_result' = login(doctors_db, email, password)
    /\ apc' = IF login_result'.status = 200 THEN "request" ELSE "done"
    /\ UNCHANGED <<doctors_db, email, password, user, register_result,
                   current_user, score_vars, match_vars, flow_vars>>

\* app.py lines 98-119: a later request carrying the token
GetCurrentUser ==
    /\ apc = "request"
    /\ \E expired \in BOOLEAN :
          current_user' = get_current_user(doctors_db,
                                           login_result.access_token, expired)
    /\ apc' = "done"
    /\ UNCHANGED <<doctors_db, email, password, user, auth_result,
                   register_result, login_result, score_vars, match_vars,
                   flow_vars>>

AuthIdle ==
    /\ doctors_db = <<>> /\ email = <<>> /\ password = ""
    /\ user = NoUser /\ auth_result = NoUser /\ apc = "idle"
    /\ AccountIdle

AuthInit ==
    /\ doctors_db \in DoctorsDbs
    /\ email \in Emails
    /\ password \in Passwords
    /\ user = NoUser /\ auth_result = NoUser /\ apc = "call"
    /\ AccountIdle

\* lines 152-157: the lookup, and the return of None for an unknown user
AuthLookup ==
    /\ apc = "call"
    /\ user' = get_user_by_email(doctors_db, email, 1)
    /\ apc' = IF user' = NoUser THEN "returned" ELSE "check"
    /\ UNCHANGED <<doctors_db, email, password, auth_result, account_vars,
                   score_vars, match_vars, flow_vars>>

\* lines 159-179: the password check and the return
AuthCheck ==
    /\ apc = "check"
    /\ auth_result' = check_password(user, password)
    /\ apc' = "returned"
    /\ UNCHANGED <<doctors_db, email, password, user, account_vars,
                   score_vars, match_vars, flow_vars>>

\* ------------------------------------------------------- run_agent_workflow
\* llm.invoke not called
NoResponse == [none |-> TRUE]

NoCall == [fn |-> "", error |-> None, result |-> <<>>]

FlowIdle ==
    /\ patient_id = "" /\ doctor_query = <<>>
    /\ catalog_file = [array |-> <<>>] /\ USE_LLM = FALSE
    /\ patient_data = EmptyDict /\ research_evidence = EmptyText
    /\ jan_aushadhi_result = EmptyDict /\ final_response = EmptyDict
    /\ jan_result = EmptyDict /\ evidence = NoneText /\ variant = 0
    /\ pmids = <<>> /\ last_call = NoCall /\ tried = <<>> /\ outputs = <<>>
    /\ response = NoResponse
    /\ returned = EmptyDict /\ exc = None /\ pc = "idle"

FlowQueries == {Lipitor, Diclofenac}

\* lines 229-236: the state run_agent_workflow starts from
Init ==
    /\ patient_id \in PatientIds
    /\ doctor_query \in FlowQueries
    /\ catalog_file \in CatalogFiles
    /\ USE_LLM \in BOOLEAN
    /\ patient_data = EmptyDict /\ research_evidence = EmptyText
    /\ jan_aushadhi_result = EmptyDict /\ final_response = EmptyDict
    /\ jan_result = EmptyDict /\ evidence = NoneText /\ variant = 0
    /\ pmids = <<>> /\ last_call = NoCall /\ tried = <<>> /\ outputs = <<>>
    /\ response = NoResponse
    /\ returned = EmptyDict /\ exc = None /\ pc = "personalization"
    /\ ScoreIdle /\ MatchIdle /\ AuthIdle

env_vars == <<patient_id, doctor_query, catalog_file, USE_LLM>>

\* lines 239-240: personalization_agent and state.update
Personalize ==
    /\ pc = "personalization"
    /\ \E file \in {"ok", "unreadable"} :
          patient_data' = personalization_agent(file, patient_id)
    /\ pc' = "research"
    /\ UNCHANGED <<env_vars, response, research_evidence, jan_aushadhi_result,
                   final_response, jan_result, evidence, variant, pmids,
                   last_call, tried, outputs, returned, exc, score_vars,
                   match_vars,
                   auth_vars>>

\* research_agent, lines 74-92: the patient context, the catalog search and
\* the search terms; an exception of these leaves run_agent_workflow
ResearchBegin ==
    /\ pc = "research"
    /\ LET jan == IF IsDict(patient_data)
                  THEN search_jan_aushadhi_default(doctor_query, catalog_file)
                  ELSE Raise("AttributeError")
       IN  IF jan.exc # None
           THEN /\ exc' = jan.exc
                /\ pc' = "raised"
                /\ UNCHANGED <<jan_result, variant>>
           ELSE /\ jan_result' = jan.value
                /\ variant' = 1
                /\ pc' = "search_strict"
                /\ exc' = exc
    /\ UNCHANGED <<env_vars, response, patient_data, research_evidence,
                   jan_aushadhi_result, final_response, evidence, pmids,
                   last_call, tried, outputs, returned, score_vars, match_vars,
                   auth_vars>>

Called(fn, resp, result) ==
    [fn |-> fn, error |-> Get(resp, "error", None), result |-> result]

\* lines 96-97 and 130-132: the term is logged and searched in strict mode
SearchStrict ==
    /\ pc = "search_strict"
    /\ tried' = Append(tried, Terms[variant])
    /\ \E resp \in SearchResponses :
          LET ids == search_pubmed_ids(resp)
          IN  IF ids.exc # None
              THEN /\ exc' = ids.exc /\ pc' = "raised"
                   /\ UNCHANGED <<pmids, last_call>>
              ELSE /\ pmids' = ids.value
                   /\ last_call' = Called("search_pubmed_ids", resp, ids.value)
                   /\ pc' = IF ids.value = <<>> THEN "search_broad" ELSE "fetch"
                   /\ exc' = exc
    /\ UNCHANGED <<env_vars, response, patient_data, research_evidence,
                   jan_aushadhi_result, final_response, jan_result, evidence,
                   variant, outputs, returned, score_vars, match_vars,
                   auth_vars>>

\* lines 132-137: the broadened search, and the error result when it too
\* finds nothing
SearchBroad ==
    /\ pc = "search_broad"
    /\ \E resp \in SearchResponses :
          LET ids == search_pubmed_ids(resp)
          IN  IF ids.exc # None
              THEN /\ exc' = ids.exc /\ pc' = "raised"
                   /\ UNCHANGED <<pmids, last_call, evidence, outputs>>
              ELSE /\ pmids' = ids.value
                   /\ last_call' = Called("search_pubmed_ids", resp, ids.value)
                   /\ exc' = exc
                   /\ IF ids.value = <<>>
                      THEN /\ evidence' = NoResults
                           /\ outputs' = Append(outputs, NoResults)
                           /\ pc' = "loop_check"
                      ELSE /\ UNCHANGED <<evidence, outputs>>
                           /\ pc' = "fetch"
    /\ UNCHANGED <<env_vars, response, patient_data, research_evidence,
                   jan_aushadhi_result, final_response, jan_result, variant,
                   tried, returned, score_vars, match_vars,
                   auth_vars>>

\* lines 139-140: the fetch, and query_pubmed_realtime's result
Fetch ==
    /\ pc = "fetch"
    /\ \E resp \in FetchResponses(pmids) :
          LET articles == fetch_article_details(pmids, resp)
              result == query_pubmed_realtime_result(articles)
          IN  /\ last_call' = Called("fetch_article_details", resp, articles)
              /\ evidence' = result
              /\ outputs' = Append(outputs, result)
    /\ pc' = "loop_check"
    /\ UNCHANGED <<env_vars, response, patient_data, research_evidence,
                   jan_aushadhi_result, final_response, jan_result, variant,
                   pmids, tried, returned, exc, score_vars, match_vars,
                   auth_vars>>

\* lines 95-101: no article from this term, and another term is left
NextVariant ==
    /\ pc = "loop_check"
    /\ ~loop_break(evidence)
    /\ variant < Len(Terms)
    /\ variant' = variant + 1
    /\ pc' = "search_strict"
    /\ UNCHANGED <<env_vars, response, patient_data, research_evidence,
                   jan_aushadhi_result, final_response, jan_result, evidence,
                   pmids, last_call, tried, outputs, returned, exc,
                   score_vars, match_vars,
                   auth_vars>>

\* lines 99-109 and 244: the loop ends, by break or with the terms used up;
\* research_agent returns, the calls' locals are gone, the state is updated
ResearchReturn ==
    /\ pc = "loop_check"
    /\ loop_break(evidence) \/ variant = Len(Terms)
    /\ research_evidence' = IF Falsy(evidence) THEN NoResults ELSE evidence
    /\ jan_aushadhi_result' = jan_result
    /\ pmids' = <<>>
    /\ last_call' = NoCall
    /\ pc' = "safety"
    /\ UNCHANGED <<env_vars, response, patient_data, final_response, jan_result,
                   evidence, variant, tried, outputs, returned, exc,
                   score_vars, match_vars,
                   auth_vars>>

SafetyAgain ==
    /\ pc \in {"safety", "finish"}
    /\ \E llm \in LlmOutcomes :
          /\ response' = IF USE_LLM THEN llm ELSE NoResponse
          /\ final_response' = safety_agent(doctor_query, jan_aushadhi_result,
                                            research_evidence, USE_LLM, llm)
    /\ pc' = "finish"
    /\ UNCHANGED <<env_vars, patient_data, research_evidence,
                   jan_aushadhi_result, jan_result, evidence, variant, pmids,
                   last_call, tried, outputs, returned, exc, score_vars,
                   match_vars, auth_vars>>

\* lines 247-248: safety_agent and state.update
Safety ==
    /\ pc = "safety"
    /\ \E llm \in LlmOutcomes :
          /\ response' = IF USE_LLM THEN llm ELSE NoResponse
          /\ final_response' = safety_agent(doctor_query, jan_aushadhi_result,
                                            research_evidence, USE_LLM, llm)
    /\ pc' = "finish"
    /\ UNCHANGED <<env_vars, patient_data, research_evidence,
                   jan_aushadhi_result, jan_result, evidence, variant, pmids,
                   last_call, tried, outputs, returned, exc, score_vars,
                   match_vars,
                   auth_vars>>

\* lines 251-256: the sources are counted and the response is returned
WorkflowReturn ==
    /\ pc = "finish"
    /\ returned' = final_response
    /\ pc' = "done"
    /\ UNCHANGED <<env_vars, response, patient_data, research_evidence,
                   jan_aushadhi_result, final_response, jan_result, evidence,
                   variant, pmids, last_call, tried, outputs, exc, score_vars,
                   match_vars,
                   auth_vars>>

Next ==
    \/ Personalize
    \/ ResearchBegin
    \/ SearchStrict
    \/ SearchBroad
    \/ Fetch
    \/ NextVariant
    \/ ResearchReturn
    \/ Safety
    \/ WorkflowReturn

Spec == Init /\ [][Next]_vars

\* ---------------------------------------------------------- specifications
SpecScoreInit == ScoreInit /\ MatchIdle /\ FlowIdle /\ AuthIdle
SpecScoreNext == ScoreApply
SpecScore == SpecScoreInit /\ [][SpecScoreNext]_vars

SpecMatchInit == MatchInit /\ ScoreIdle /\ FlowIdle /\ AuthIdle
SpecMatchNext == MatchBegin \/ MatchScanStep \/ MatchFinish
SpecMatch == SpecMatchInit /\ [][SpecMatchNext]_vars

SpecAuthInit == AuthInit /\ ScoreIdle /\ MatchIdle /\ FlowIdle
SpecAuthNext == AuthLookup \/ AuthCheck
SpecAuth == SpecAuthInit /\ [][SpecAuthNext]_vars

SpecAccountInit == AccountInit /\ ScoreIdle /\ MatchIdle /\ FlowIdle
SpecAccountNext == Register \/ Login \/ GetCurrentUser
SpecAccount == SpecAccountInit /\ [][SpecAccountNext]_vars

\* ------------------------------------------------------------------ claims
\* the number of articles a query_pubmed_realtime result carries
ArticlesIn(text) ==
    LET d == text[1].json
    IN  IF HasKey(d, "articles") THEN Len(d.articles) ELSE 0

HandedOver == pc \in {"safety", "finish", "done"}

\* C1: the payload safety_agent returns always has a status, and it is one
\* of approved, blocked, caution.
C1_StatusAlwaysValid ==
    pc \in {"finish", "done"} =>
        /\ HasKey(final_response, "status")
        /\ final_response["status"] \in Statuses

\* C2: no step of run_agent_workflow lets an exception escape to the caller.
C2_NoExceptionEscapes == exc = None /\ pc # "raised"

\* C3: the search terms are tried in list order, no term is queried after
\* one that yielded an article, and the evidence handed to safety_agent is
\* exactly the output of that first yielding term.
C3_FirstSuccessStops ==
    /\ Len(outputs) <= Len(tried) /\ Len(tried) <= Len(outputs) + 1
    /\ \A k \in 1..Len(tried) : tried[k] = Terms[k]
    /\ \A k \in 1..Len(outputs) :
          ArticlesIn(outputs[k]) >= 1 =>
              /\ k = Len(tried)
              /\ HandedOver => research_evidence = outputs[k]

\* C3 witness: terms 1 and 2 yielded nothing, term 3 yielded an article and
\* its output was returned.
C3_Witness ==
    /\ pc = "done"
    /\ Len(tried) = 3
    /\ ArticlesIn(outputs[1]) = 0 /\ ArticlesIn(outputs[2]) = 0
    /\ ArticlesIn(outputs[3]) >= 1
    /\ research_evidence = outputs[3]

\* C4: every query_pubmed_realtime result with status success carries at
\* least one article.
C4_SuccessHasArticles ==
    \A k \in 1..Len(outputs) :
        LET d == outputs[k][1].json
        IN  d.status = "success" => d.evidence_count >= 1

\* C5: when no term yielded an article, the evidence handed to safety_agent
\* has status error, a message and no articles.
C5_ExhaustedIsError ==
    (HandedOver /\ \A k \in 1..Len(outputs) : ArticlesIn(outputs[k]) = 0) =>
        LET d == research_evidence[1].json
        IN  /\ d.status = "error"
            /\ HasKey(d, "message")
            /\ Get(d, "articles", <<>>) = <<>>

\* C6: a failed search or fetch call returns zero results and raises nothing
\* (an exception leaves the workflow only before the first term is tried);
\* the fallback goes on: the broadened search after a failed strict search,
\* and after a term that ended in a failed call the next term, or the
\* return of research_agent when it was the last.
C6_FailedCallState ==
    /\ pc = "raised" => tried = <<>>
    /\ last_call.error # None =>
          /\ last_call.result = <<>>
          /\ pc \in {"search_broad", "loop_check", "search_strict"}
          /\ pc = "loop_check" => ArticlesIn(evidence) = 0

C6_FailedCallStep ==
    (pc = "loop_check" /\ last_call.error # None) =>
        IF variant < Len(Terms)
        THEN pc' = "search_strict" /\ variant' = variant + 1
        ELSE pc' = "safety"

\* C6: in every state a failed call has counted as zero results with nothing
\* raised, and every step after a failed call continues the fallback.
C6_ErrorsAreZeroResults ==
    [](C6_FailedCallState) /\ [][C6_FailedCallStep]_vars

\* C6 witness: a later term is about to be tried after a call of the term
\* before it failed.
C6_Witness ==
    /\ pc = "search_strict"
    /\ variant >= 2
    /\ last_call.error # None
    /\ exc = None

\* market price minus catalog price of a catalog record
SavingsOf(record) ==
    Get(record, "market_avg_price", 0) - Get(record, "jan_price", 0)

AtLeastThreshold(score) == score.num >= THRESHOLD * score.den

\* C7: a found result reports an entry whose market price minus catalog
\* price is >= 0, and a best entry at or above the threshold with negative
\* savings is reported not found.
C7_FoundHasSavings ==
    mpc = "returned" =>
        LET r == match_result.value
        IN  /\ r.found =>
                /\ SavingsOf(best_match) >= 0
                /\ r.drug_data.generic_name = best_match["generic_name"]
                /\ r.drug_data.market_average_price.rupees
                       - r.drug_data.jan_aushadhi_price.rupees >= 0
                /\ r.drug_data.savings_amount.paise >= 0
            /\ (AtLeastThreshold(highest_score) /\ SavingsOf(best_match) < 0)
                   => ~r.found

\* C7 witness: the best entry reached the threshold with negative savings
\* and the result is not found.
C7_Witness ==
    /\ mpc = "returned"
    /\ AtLeastThreshold(highest_score)
    /\ SavingsOf(best_match) < 0
    /\ ~match_result.value.found

\* C8: found only with a best score >= 85.0; below it not found, with a
\* message giving the best score to one decimal; exactly 85.0 is accepted.
C8_Threshold ==
    (mpc = "returned" /\ medicine_database # <<>>) =>
        LET r == match_result.value
            diff == 20 * highest_score.num
                        - 2 * Get(r.message, "best", 0) * highest_score.den
        IN  /\ r.found => AtLeastThreshold(highest_score)
            /\ ~AtLeastThreshold(highest_score) =>
                  /\ ~r.found
                  /\ r.message.text =
                       "No direct Jan Aushadhi substitute found. (Best match: {}%)"
                  /\ HasKey(r.message, "best")
                  /\ diff <= highest_score.den /\ -diff <= highest_score.den
            /\ (highest_score = Rat(THRESHOLD, 1) /\ SavingsOf(best_match) >= 0)
                  => r.found

\* C8 witness: a best score of exactly 85.0 was accepted.
C8_Witness ==
    /\ mpc = "returned"
    /\ highest_score = Rat(THRESHOLD, 1)
    /\ match_result.value.found

\* C9 as stated: a query longer than 4 characters that is a substring of the
\* generic name scores >= 95.0, alone and as the best score of the
\* one-entry search.
C9_RawSubstring ==
    (spc = "done" /\ Len(sq) > MinBonusLen /\ Contains(st, sq)) =>
        /\ sim.num >= SubstringBonus * sim.den
        /\ one_best.num >= SubstringBonus * one_best.den

\* C9 amended: a query whose lowercased and trimmed form is longer than 4
\* characters and is a substring of the lowercased and trimmed generic name
\* scores >= 95.0, alone and as the best score of the one-entry search.
C9_NormalizedSubstring ==
    (/\ spc = "done"
     /\ Len(strip(lower(sq))) > MinBonusLen
     /\ Contains(strip(lower(st)), strip(lower(sq)))) =>
        /\ sim.num >= SubstringBonus * sim.den
        /\ one_best.num >= SubstringBonus * one_best.den

\* C9 witness: the bonus lifted a substring query whose alignment ratio is
\* below 95 (5 of 7 characters: 10/12).
C9_Witness ==
    /\ spc = "done"
    /\ Len(strip(lower(sq))) = 5
    /\ Len(strip(lower(st))) = 7
    /\ Contains(strip(lower(st)), strip(lower(sq)))
    /\ sim = Rat(SubstringBonus, 1)
    /\ one_best = Rat(SubstringBonus, 1)

\* C10 as stated: when the generic-name score equals the best brand score,
\* the recorded provenance of the entry is the generic match.
C10_GenericWinsTies ==
    (mpc = "loop" /\ idx > 0 /\ generic_score = brand_score) =>
        current_source.kind = "Generic Match"

\* C10 amended: the provenance is the generic match exactly when the
\* generic-name score is strictly greater than the best brand score; on an
\* exact tie it is the brand match.
C10_BrandWinsTies ==
    (mpc = "loop" /\ idx > 0) =>
        /\ current_source.kind = "Generic Match"
               <=> generic_score.num * brand_score.den
                       > brand_score.num * generic_score.den
        /\ generic_score = brand_score => current_source.kind = "Brand Match"

\* C10 witness: generic name and a brand both scored 95.0 and the brand was
\* recorded.
C10_Witness ==
    /\ mpc = "loop" /\ idx > 0
    /\ generic_score = Rat(SubstringBonus, 1)
    /\ brand_score = generic_score
    /\ current_source.kind = "Brand Match"
    /\ current_source.name # <<>>

\* the query equals, after lowercasing and trimming, a brand alias of record
IsBrandAlias(query, record) ==
    \E k \in 1..Len(Get(record, "common_brands", <<>>)) :
        strip(lower(record["common_brands"][k])) = strip(lower(query))

\* C11: with a one-entry catalog whose entry has a generic name and
\* non-negative savings, a query equal (lowercased, trimmed) to one of the
\* entry's brand aliases returns found, the entry's generic name and
\* savings = market price - catalog price.
C11_BrandAliasFound ==
    (/\ mpc \in {"returned", "raised"}
     /\ Len(medicine_database) = 1
     /\ HasKey(medicine_database[1], "generic_name")
     /\ SavingsOf(medicine_database[1]) >= 0
     /\ IsBrandAlias(query_drug, medicine_database[1])) =>
        /\ mpc = "returned"
        /\ match_result.value.found
        /\ match_result.value.drug_data.generic_name
               = medicine_database[1]["generic_name"]
        /\ match_result.value.drug_data.savings_amount
               = Rupee2(SavingsOf(medicine_database[1]))

\* C11 witness: " lipitor" against the Atorvastatin entry alone returned
\* Atorvastatin with savings 128.00.
C11_Witness ==
    /\ mpc = "returned"
    /\ medicine_database = <<AtorvastatinEntry>>
    /\ query_drug = <<" ","l","i","p","i","t","o","r">>
    /\ match_result.value.found
    /\ match_result.value.drug_data.generic_name = Atorvastatin
    /\ match_result.value.drug_data.savings_amount = [paise |-> 12800]

\* the catalog file is absent or malformed, or holds an empty catalog
CatalogEmptyOrUnreadable ==
    HasKey(catalog_file, "error") \/ catalog_file = [array |-> <<>>]

\* C12: when the catalog is empty, or its file is absent or malformed, the
\* search returns found = false with the "Database unavailable." message for
\* every query and raises nothing.
C12_EmptyCatalogUnavailable ==
    (/\ CatalogEmptyOrUnreadable
     /\ IsDict(patient_data)
     /\ pc \notin {"personalization", "research"}) =>
        /\ exc = None
        /\ pc # "raised"
        /\ jan_result = Unavailable

\* the article sequence of the retrieval result handed to safety_agent
RetrievedArticles == Get(research_evidence[1].json, "articles", <<>>)

\* C13: on every path of safety_agent and for every status, the payload's
\* sources are the article sequence of the retrieval result, in order,
\* whatever the collaborator returned.
C13_SourcesAttached ==
    pc \in {"finish", "done"} =>
        /\ HasKey(final_response, "sources")
        /\ final_response["sources"] = RetrievedArticles
        /\ pc = "done" => returned = final_response

\* C13 witness: with the collaborator configured, a blocked payload was
\* returned carrying the two retrieved articles in their order.
C13_Witness ==
    /\ pc = "done"
    /\ USE_LLM
    /\ Get(returned, "status", None) = "blocked"
    /\ Len(RetrievedArticles) = 2
    /\ RetrievedArticles[1] # RetrievedArticles[2]
    /\ returned["sources"] = RetrievedArticles

\* the collaborator answered with a text that parses to an object
DraftParsed ==
    /\ USE_LLM
    /\ HasKey(response, "content")
    /\ json_loads(clean_json_text(response.content)).exc = None
    /\ IsDict(json_loads(clean_json_text(response.content)).value)

TheDraft == json_loads(clean_json_text(response.content)).value

\* the savings text built from the deterministic match result
ToolSavings ==
    [found |-> TRUE,
     text |-> [save |-> jan_aushadhi_result["drug_data"]["savings_amount"],
               switch_to |-> jan_aushadhi_result["drug_data"]["generic_name"]]]

\* C14: when the matcher found a substitute and the parsed draft's status
\* is not blocked, the payload's savings is found = true with the text built
\* from the match result, whatever the draft said; the draft's own savings
\* is kept only when the status is blocked or the matcher found nothing.
C14_SavingsRepaired ==
    (pc \in {"finish", "done"} /\ DraftParsed /\ HasKey(TheDraft, "status")) =>
        IF Get(jan_aushadhi_result, "found", FALSE)
           /\ TheDraft["status"] # "blocked"
        THEN final_response["savings"] = ToolSavings
        ELSE final_response["savings"] = TheDraft["savings"]

\* C14 witness: the draft said found = false, the matcher had found
\* Atorvastatin, and the approved payload carries the matcher's savings.
C14_Witness ==
    /\ pc = "done"
    /\ DraftParsed
    /\ Get(TheDraft, "status", None) = "approved"
    /\ TheDraft["savings"] = [found |-> FALSE, text |-> ""]
    /\ Get(jan_aushadhi_result, "found", FALSE)
    /\ returned["savings"] = ToolSavings
    /\ ToolSavings.text.save = [paise |-> 12800]
    /\ ToolSavings.text.switch_to = Atorvastatin

\* the collaborator's call raised, or its text is no JSON once the fences
\* are removed
DraftUnparseable ==
    /\ USE_LLM
    /\ \/ HasKey(response, "error")
       \/ /\ HasKey(response, "content")
          /\ json_loads(clean_json_text(response.content)).exc # None

\* C15: when the collaborator's call raises or its text does not parse, the
\* payload is the fallback with status caution and the retrieval's articles
\* as sources, and no exception reaches the caller.
C15_ParseFailureFallsBack ==
    (pc \in {"finish", "done", "raised"} /\ DraftUnparseable) =>
        /\ pc # "raised" /\ exc = None
        /\ final_response["status"] = "caution"
        /\ final_response["title"] = "Analysis Error"
        /\ final_response["sources"] = RetrievedArticles
        /\ pc = "done" => returned = final_response

\* C15 witness: the collaborator answered with fenced words that are no
\* JSON, and the caution fallback was returned with a retrieved article.
C15_Witness ==
    /\ pc = "done"
    /\ USE_LLM
    /\ HasKey(response, "content")
    /\ Len(response.content) = 3
    /\ clean_json_text(response.content) = GarbageText
    /\ returned["status"] = "caution"
    /\ Len(returned["sources"]) >= 1

\* no clinical judgement was obtained from the collaborator
Degraded == ~USE_LLM \/ DraftUnparseable

\* C16: on every degraded path the payload is the caution verdict that asks
\* for manual review and carries the retrieved articles; when the
\* collaborator is not configured it also carries the matcher's result.
C16_DegradedIsCaution ==
    (pc \in {"finish", "done"} /\ Degraded) =>
        /\ final_response["status"] = "caution"
        /\ final_response["sources"] = RetrievedArticles
        /\ (~USE_LLM /\ Get(jan_aushadhi_result, "found", FALSE)) =>
               final_response["savings"] = jan_aushadhi_result

PatientNotFound == [error |-> "Patient not found"]

\* C17: for a patient id absent from the store the patient step yields the
\* not-found marker (or {} when the store itself cannot be read) and no
\* exception; the search terms carry no condition tags, an exception after
\* that comes only from the catalog search, and the payload safety_agent
\* builds is the one returned.
C17_UnknownPatientDegrades ==
    (patient_id \notin DOMAIN PatientsDb /\ pc # "personalization") =>
        /\ patient_data \in {PatientNotFound, EmptyDict}
        /\ \A k \in 1..Len(Terms) : Get(Terms[k], "conditions", <<>>) = <<>>
        /\ exc # "AttributeError"
        /\ pc = "raised" =>
               search_jan_aushadhi_default(doctor_query, catalog_file).exc # None
        /\ pc \in {"finish", "done"} => DOMAIN final_response # {}
        /\ pc = "done" => returned = final_response

\* C17 witness: PAT-404 got the not-found marker, the catalog was searched,
\* four terms were tried and a payload came back.
C17_Witness ==
    /\ pc = "done"
    /\ patient_id = "PAT-404"
    /\ patient_data = PatientNotFound
    /\ Get(jan_aushadhi_result, "found", FALSE)
    /\ Len(tried) = 4
    /\ HasKey(returned, "status")

\* the password verifies against the hash stored for the looked-up user
PasswordVerifies ==
    /\ user # NoUser
    /\ HasKey(password_hash_of(user), "bcrypt")
    /\ password_hash_of(user).bcrypt = password

\* C18: authenticate_user returns a user only when the user exists and the
\* password verifies against that user's stored hash; for any other
\* password it returns None.
C18_OnlyVerifiedPassword ==
    apc = "returned" =>
        /\ auth_result \in {NoUser, user}
        /\ auth_result # NoUser <=> PasswordVerifies

\* the score of one catalog entry: the greatest of the generic-name score
\* and the brand scores (0 when nothing scores above it)
EntryScore(query, record) ==
    LET brands == Get(record, "common_brands", <<>>)
        scores ==
            {Rat(0, 1),
             get_similarity_score(query, Get(record, "generic_name", <<>>))}
            \cup {get_similarity_score(query, brands[i]) : i \in 1..Len(brands)}
    IN  CHOOSE x \in scores : \A y \in scores : RatGe(x, y)

\* C19: after any number of entries scanned, the best match is the first
\* of the scanned entries that has the highest entry score (none while
\* every score is 0), highest_score is that score, and the result is the
\* function search_jan_aushadhi of query and catalog.
C19_FirstHighestWins ==
    (mpc \in {"loop", "returned", "raised"} /\ medicine_database # <<>>) =>
        LET score(k) == EntryScore(query_drug, medicine_database[k])
        IN  /\ IF \A k \in 1..idx : score(k) = Rat(0, 1)
               THEN best_match = NoRecord /\ highest_score = Rat(0, 1)
               ELSE \E k \in 1..idx :
                       /\ best_match = medicine_database[k]
                       /\ highest_score = score(k)
                       /\ \A j \in 1..idx : RatGe(score(k), score(j))
                       /\ \A j \in 1..(k - 1) : RatGt(score(k), score(j))
            /\ mpc \in {"returned", "raised"} =>
                   match_result =
                       search_jan_aushadhi(query_drug, medicine_database)

\* C19 witness: two different entries tied at the highest score and the
\* first one was reported.
C19_Witness ==
    /\ mpc = "returned"
    /\ medicine_database = <<AtorvastatinEntry, AtorvastatinPackEntry>>
    /\ EntryScore(query_drug, AtorvastatinEntry)
           = EntryScore(query_drug, AtorvastatinPackEntry)
    /\ best_match = AtorvastatinEntry
    /\ match_result.value.found
    /\ match_result.value.drug_data.jan_aushadhi_price = Rupee(12)

\* C20, in every state: once safety_agent is due or has run, the patient
\* step, the catalog search and the retrieval have ended and their results
\* are in the request state; before it runs there is no payload, and what
\* is returned is the payload it built.
C20_BarrierState ==
    /\ pc \in {"safety", "finish", "done"} =>
          /\ Len(tried) >= 1 /\ Len(outputs) = Len(tried)
          /\ research_evidence = outputs[Len(outputs)]
          /\ jan_aushadhi_result = jan_result
          /\ HasKey(jan_aushadhi_result, "found")
          /\ patient_data \in
                 {personalization_agent(f, patient_id) : f \in {"ok", "unreadable"}}
    /\ pc \notin {"finish", "done"} =>
          final_response = EmptyDict /\ response = NoResponse
    /\ pc # "done" => returned = EmptyDict
    /\ pc = "done" => returned = final_response

\* C20, in every step: the payload is written only by the one safety_agent
\* step, that step is never taken again, and after it nothing of the
\* request state changes but the return.
C20_BarrierStep ==
    /\ final_response' # final_response => pc = "safety" /\ pc' = "finish"
    /\ pc = "safety" => pc' = "finish"
    /\ pc' = "safety" => pc = "loop_check"
    /\ pc \in {"safety", "finish", "done"} =>
          /\ patient_data' = patient_data
          /\ research_evidence' = research_evidence
          /\ jan_aushadhi_result' = jan_aushadhi_result
    /\ pc = "finish" => pc' = "done" /\ returned' = final_response

\* C20: safety_agent starts only after the patient load, the matcher and
\* the retriever have ended with their results in the state, runs exactly
\* once, and its payload is returned unchanged.
C20_AssemblerAfterBarrier ==
    [](C20_BarrierState) /\ [][C20_BarrierStep]_vars

\* C20 witness: a request ended with the payload of its one safety_agent
\* run, built from the patient record, the match and the retrieval.
C20_Witness ==
    /\ pc = "done"
    /\ patient_data = PatientsDb["PAT-001"]
    /\ Get(jan_aushadhi_result, "found", FALSE)
    /\ Len(RetrievedArticles) >= 1
    /\ HasKey(returned, "status")
    /\ returned = final_response

\* the email was registered before this registration request: a doctor
\* other than the one the request created has it
RegisteredBefore ==
    \E i \in 1..Len(doctors_db) :
        /\ lower(Get(doctors_db[i].data, "email", <<>>)) = lower(email)
        /\ doctors_db[i].id # Get(register_result, "doctor_id", None)

\* the doctor the access token's subject resolves to
TokenUser ==
    get_user_by_email(doctors_db,
                      Get(login_result.access_token.jwt, "sub", <<>>), 1)

\* C21: after register_user succeeded, the login with the same email and
\* password succeeds with a token whose subject resolves to the registered
\* doctor, and get_current_user returns that doctor for the unexpired
\* token; registering an already-registered email returns success = false
\* and leaves the doctors store as it was.
C21_RegisterThenLogin ==
    /\ (apc \in {"request", "done"} /\ register_result.success) =>
          /\ login_result.status = 200
          /\ TokenUser # NoUser
          /\ TokenUser["id"] = register_result.doctor_id
          /\ TokenUser["email"] = email
          /\ (apc = "done" /\ current_user.status # 401) =>
                 /\ current_user.status = 200
                 /\ current_user.user = TokenUser
    /\ (apc # "register" /\ RegisteredBefore) =>
          /\ ~register_result.success
          /\ doctors_db \in DoctorsDbs

====
